---- MODULE Spec2Model ----
(***************************************************************************)
(* State-machine model of backend/server.py, the Serenity music streaming  *)
(* API: a FastAPI service over two MongoDB collections groups (users;      *)
(* songs and playlists).  Every route handler is a coroutine; each `await` *)
(* of a store operation is one atomic step of the store, and the steps of  *)
(* handlers that run concurrently interleave.                              *)
(***************************************************************************)
EXTENDS Integers, Sequences, FiniteSets, TLC

\* ------------------------------------------------------------------ bounds
MaxUsers     == 2   \* user documents the model lets register insert
MaxPlaylists == 1   \* playlists the model lets create_playlist insert
MaxSongs     == 2   \* songs the model lets upload_song insert
MaxSlots     == 2   \* requests the service handles at the same time
MaxStartups  == 2   \* process starts the model follows
MaxTime      == 45  \* last clock value (minutes) the model follows
TickStep     == 15  \* minutes the clock advances in one Tick

\* --------------------------------------------------------- program constants
ACCESS_TOKEN_EXPIRE_MINUTES == 30
TO_LIST_PLAYLISTS == 100
TO_LIST_SONGS     == 100
TO_LIST_SEARCH_SONGS     == 50
TO_LIST_SEARCH_PLAYLISTS == 20
SECRET_KEY == "serenity_music_app_secret_key_2025"
ALGORITHM  == "HS256"
SYSTEM     == "system"

\* Python's None, as a value of its own shape, and as an absent Optional[str].
None     == [none |-> TRUE]
NoneText == "<None>"

Slots == 1..MaxSlots

\* --------------------------------------------------------------------- text
\* The characters of the strings the model uses (TLC strings are atomic).
Chars(s) ==
    CASE s = "Dance" -> <<"D", "a", "n", "c", "e">>
      [] s = "Mood" -> <<"M", "o", "o", "d">>
      [] s = "Party" -> <<"P", "a", "r", "t", "y">>
      [] s = "Chill" -> <<"C", "h", "i", "l", "l">>
      [] s = "High-energy dance tracks to get you moving" -> <<"H", "i", "g", "h", "-", "e", "n", "e", "r", "g", "y", " ", "d", "a", "n", "c", "e", " ", "t", "r", "a", "c", "k", "s", " ", "t", "o", " ", "g", "e", "t", " ", "y", "o", "u", " ", "m", "o", "v", "i", "n", "g">>
      [] s = "Chill vibes for relaxing moments" -> <<"C", "h", "i", "l", "l", " ", "v", "i", "b", "e", "s", " ", "f", "o", "r", " ", "r", "e", "l", "a", "x", "i", "n", "g", " ", "m", "o", "m", "e", "n", "t", "s">>
      [] s = "Party anthems and crowd favorites" -> <<"P", "a", "r", "t", "y", " ", "a", "n", "t", "h", "e", "m", "s", " ", "a", "n", "d", " ", "c", "r", "o", "w", "d", " ", "f", "a", "v", "o", "r", "i", "t", "e", "s">>
      [] s = "Laid-back tracks for peaceful moments" -> <<"L", "a", "i", "d", "-", "b", "a", "c", "k", " ", "t", "r", "a", "c", "k", "s", " ", "f", "o", "r", " ", "p", "e", "a", "c", "e", "f", "u", "l", " ", "m", "o", "m", "e", "n", "t", "s">>
      [] s = "Gym" -> <<"G", "y", "m">>
      [] s = "My dance mix" -> <<"M", "y", " ", "d", "a", "n", "c", "e", " ", "m", "i", "x">>
      [] s = "Midnight" -> <<"M", "i", "d", "n", "i", "g", "h", "t">>
      [] s = "Dan" -> <<"D", "a", "n">>
      [] s = "dance" -> <<"d", "a", "n", "c", "e">>
      [] s = "MI" -> <<"M", "I">>
      [] s = "" -> <<>>

Lower(c) ==
    CASE c = "C" -> "c"
      [] c = "D" -> "d"
      [] c = "G" -> "g"
      [] c = "H" -> "h"
      [] c = "I" -> "i"
      [] c = "L" -> "l"
      [] c = "M" -> "m"
      [] c = "P" -> "p"
      [] OTHER -> c

LowerSeq(cs) == [i \in 1..Len(cs) |-> Lower(cs[i])]

\* {"$regex": q, "$options": "i"} for a q without regex metacharacters: the
\* field is a string and q occurs in it, ignoring case.  A null field never matches.
RegexMatch(q, text) ==
    /\ text # NoneText
    /\ LET t == LowerSeq(Chars(text))
           p == LowerSeq(Chars(q))
       IN  \E i \in 0..(Len(t) - Len(p)) :
               \A j \in 1..Len(p) : t[i + j] = p[j]

\* ------------------------------------------------------------ sequences
\* collection.find(filter) is SelectSeq(collection, filter): the matching
\* documents in the collection's natural (insertion) order.

\* cursor.to_list(n)
ToList(docs, n) == SubSeq(docs, 1, IF Len(docs) < n THEN Len(docs) ELSE n)

\* collection.find_one(filter): the first of the matching documents, or None
FindOne(hits) == IF hits = <<>> THEN None ELSE hits[1]

Ids(docs) == [i \in 1..Len(docs) |-> docs[i].id]

Range(seq) == {seq[i] : i \in 1..Len(seq)}

\* x in list
Contains(seq, x) == \E i \in 1..Len(seq) : seq[i] = x

\* {"$pop": {"songs": 1}}: the last element is removed
PullLast(seq, x) == IF seq = <<>> THEN <<>> ELSE SubSeq(seq, 1, Len(seq) - 1)

RECURSIVE Pull(_, _)
\* {"$pull": {"songs": x}}: every element equal to x is removed
Pull(seq, x) ==
    IF seq = <<>> THEN <<>>
    ELSE IF Head(seq) = x THEN Pull(Tail(seq), x)
         ELSE <<Head(seq)>> \o Pull(Tail(seq), x)

\* {"$push": {"songs": x}}
Push(seq, x) == Append(seq, x)

\* str(uuid.uuid4()): an id no document of the collection has; the n-th
\* document of a collection gets the n-th name of the collection's prefix.
Uuid4(prefix, n) == prefix \o ToString(n)

\* -------------------------------------------------------------------- state
VARIABLES
    users,      \* db.users: user documents in insertion order
    songs,      \* db.songs: song documents in insertion order
    playlists,  \* db.playlists: playlist documents in insertion order
    issued,     \* the tokens register and login returned, each with the id of
                \* the user in whose response it was returned
    clock,      \* datetime.utcnow(), in minutes
    phase,      \* "down" | "up": whether the process is serving
    startups,   \* how many times the process has started
    req,        \* per slot: the request being handled, its locals and position
    resp        \* the response the last step sent, NoResponse if it sent none

vars == <<users, songs, playlists, issued, clock, phase, startups, req, resp>>

store == <<users, songs, playlists>>

\* A request being handled: the route (op), the next step (pc), the request's
\* parameters (args), the bearer token and whose it is (holder), the time of its
\* arrival (at), and the handler's locals current_user (cur), playlist, songs.
Idle == [op |-> "none", pc |-> "idle", args |-> None, token |-> None,
         holder |-> "", at |-> 0, cur |-> None, playlist |-> None, songs |-> <<>>]

NoResponse == [op |-> "none", args |-> None, token |-> None, holder |-> "",
               at |-> 0, cur |-> None, status |-> 0, body |-> None]

\* what the client of request r receives: 200 with a body, or HTTPException(status)
Response(r, status, body) ==
    [op |-> r.op, args |-> r.args, token |-> r.token, holder |-> r.holder,
     at |-> r.at, cur |-> r.cur, status |-> status, body |-> body]

\* the handler in slot s returns or raises: the response is sent, the slot is free
Respond(s, r, status, body) ==
    /\ resp' = Response(r, status, body)
    /\ req' = [req EXCEPT ![s] = Idle]

\* the handler in slot s awaits its next store operation
Goto(s, r, pc) ==
    /\ req' = [req EXCEPT ![s] = [r EXCEPT !.pc = pc]]
    /\ resp' = NoResponse

\* the response of the last step has left: the event loop runs its next step
Ready == resp = NoResponse

\* the response is on its way to the client
send_response ==
    /\ resp # NoResponse
    /\ resp' = NoResponse
    /\ UNCHANGED <<users, songs, playlists, issued, clock, phase, startups, req>>

\* a request arrives: it is handled in the first free slot
Arrive(s) ==
    /\ Ready
    /\ phase = "up"
    /\ req[s].pc = "idle"
    /\ \A t \in Slots : t < s => req[t].pc # "idle"

\* the handler in slot s is resumed at pc
At(s, pc) == Ready /\ phase = "up" /\ req[s].pc = pc

InFlight(pc) == Cardinality({s \in Slots : req[s].pc = pc})

\* ----------------------------------------------------------- utility functions
get_password_hash(password) == <<"sha256", password>>

verify_password(plain_password, hashed_password) ==
    get_password_hash(plain_password) = hashed_password

\* expires_delta in minutes; 0 stands for a falsy expires_delta (None)
create_access_token(data, expires_delta, now) ==
    LET expire == IF expires_delta # 0 THEN now + expires_delta ELSE now + 15
    IN  [sub |-> data.sub, exp |-> expire, key |-> SECRET_KEY, alg |-> ALGORITHM]

\* jwt.decode(token, SECRET_KEY, algorithms=[ALGORITHM]): the payload, or None
\* for a JWTError (bad signature or algorithm, or the exp claim in the past)
jwt_decode(token, key, algorithms, now) ==
    IF token.key # key \/ token.alg \notin algorithms THEN None
    ELSE IF token.exp < now THEN None
    ELSE [sub |-> token.sub, exp |-> token.exp]

\* the user document the bearer token resolves to, or None for the 401
get_current_user(token, now) ==
    LET payload == jwt_decode(token, SECRET_KEY, {ALGORITHM}, now)
    IN  IF payload = None THEN None
        ELSE FindOne(SelectSeq(users, LAMBDA u : u.email = payload.sub))

\* the User response model: the document without its password hash
User(doc) == [id |-> doc.id, name |-> doc.name, email |-> doc.email]

\* A request for a route that Depends(get_current_user), as it reaches the
\* handler.  The dependency's find_one on db.users and the handler's first store
\* operation are taken in one step: users are only ever appended and find_one
\* returns the first match, so the user resolved is the same at both moments.
Request(op, args, bearer) ==
    [Idle EXCEPT !.op = op, !.args = args, !.token = bearer.token,
                 !.holder = bearer.uid, !.at = clock,
                 !.cur = get_current_user(bearer.token, clock)]

\* raised by the dependency: the handler is never called with the parameters
credentials_exception(s, r) ==
    Respond(s, [r EXCEPT !.args = None], 401, "Could not validate credentials")

\* ------------------------------------------------------------------- inputs
UserCreateInputs ==
    { [name |-> "Ann", email |-> "a@x", password |-> "pw1"],
      [name |-> "Al",  email |-> "a@x", password |-> "pw2"],
      [name |-> "Bob", email |-> "b@x", password |-> "pw1"] }

UserLoginInputs ==
    { [email |-> "a@x", password |-> "pw1"],
      [email |-> "a@x", password |-> "pw2"],
      [email |-> "b@x", password |-> "pw1"] }

PlaylistCreateInputs ==
    { [title |-> "Gym", description |-> NoneText, is_public |-> FALSE],
      [title |-> "My dance mix", description |-> "Mood", is_public |-> TRUE] }

SongCreateInputs ==
    { [title |-> "Midnight", artist |-> "Dan", genre |-> NoneText] }

Queries == {"dance", "MI"}

\* a bearer token the service never signed
ForgedToken ==
    [token |-> [sub |-> "a@x", exp |-> MaxTime + ACCESS_TOKEN_EXPIRE_MINUTES,
                key |-> "guessed", alg |-> ALGORITHM],
     uid |-> "nobody"]

Bearers == issued \cup {ForgedToken}

\* the ids a request may name: those of the documents (of the seeded playlists,
\* which are alike, the first one), and one of no document
PlaylistIdInputs ==
    {p.id : p \in {d \in Range(playlists) : d.created_by # SYSTEM \/ d.title = "Dance"}}
        \cup {"p0"}

SongIdInputs == Range(Ids(songs)) \cup {"s0"}

\* --------------------------------------------------------------- bootstrap
sample_playlists(n) ==
    << [id |-> Uuid4("p", n + 1), title |-> "Dance",
        description |-> "High-energy dance tracks to get you moving",
        songs |-> <<>>, created_by |-> SYSTEM, is_public |-> TRUE],
       [id |-> Uuid4("p", n + 2), title |-> "Mood",
        description |-> "Chill vibes for relaxing moments",
        songs |-> <<>>, created_by |-> SYSTEM, is_public |-> TRUE],
       [id |-> Uuid4("p", n + 3), title |-> "Party",
        description |-> "Party anthems and crowd favorites",
        songs |-> <<>>, created_by |-> SYSTEM, is_public |-> TRUE],
       [id |-> Uuid4("p", n + 4), title |-> "Chill",
        description |-> "Laid-back tracks for peaceful moments",
        songs |-> <<>>, created_by |-> SYSTEM, is_public |-> TRUE] >>

initialize_sample_data_unguarded(pls) == pls \o sample_playlists(Len(pls))

initialize_sample_data(pls) ==
    LET existing_playlists ==
            ToList(SelectSeq(pls, LAMBDA p : p.created_by = SYSTEM), 1)
    IN  IF existing_playlists # <<>> THEN pls
        ELSE pls \o sample_playlists(Len(pls))

\* @app.on_event("startup"): runs to completion before the process serves
startup_event ==
    /\ Ready
    /\ phase = "down"
    /\ startups < MaxStartups
    /\ playlists' = initialize_sample_data(playlists)
    /\ phase' = "up"
    /\ startups' = startups + 1
    /\ resp' = NoResponse
    /\ UNCHANGED <<users, songs, issued, clock, req>>

\* @app.on_event("shutdown"): the process stops; the requests it was handling
\* end with it, the store keeps its documents
shutdown_db_client ==
    /\ Ready
    /\ phase = "up"
    /\ phase' = "down"
    /\ req' = [s \in Slots |-> Idle]
    /\ resp' = NoResponse
    /\ UNCHANGED <<users, songs, playlists, issued, clock, startups>>

\* ------------------------------------------------------------ authentication
register_without_lookup(s, user) ==
    /\ Arrive(s)
    /\ Len(users) + InFlight("register_insert") < MaxUsers
    /\ Goto(s, [Idle EXCEPT !.op = "register", !.args = user, !.at = clock],
            "register_insert")
    /\ UNCHANGED <<users, songs, playlists, issued, clock, phase, startups>>

\* POST /api/auth/register, up to db.users.find_one
register(s, user) ==
    /\ Arrive(s)
    /\ Len(users) + InFlight("register_insert") < MaxUsers
    /\ LET existing_user == FindOne(SelectSeq(users, LAMBDA u : u.email = user.email))
           r == [Idle EXCEPT !.op = "register", !.args = user, !.at = clock]
       IN  IF existing_user # None
           THEN Respond(s, r, 400, "Email already registered")
           ELSE Goto(s, r, "register_insert")
    /\ UNCHANGED <<users, songs, playlists, issued, clock, phase, startups>>

\* register, from db.users.insert_one to the response
register_insert(s) ==
    /\ At(s, "register_insert")
    /\ LET user == req[s].args
           user_data == [id |-> Uuid4("u", Len(users) + 1),
                         name |-> user.name,
                         email |-> user.email,
                         password |-> get_password_hash(user.password)]
           access_token == create_access_token([sub |-> user.email],
                                               ACCESS_TOKEN_EXPIRE_MINUTES, clock)
       IN  /\ users' = Append(users, user_data)
           /\ issued' = issued \cup {[token |-> access_token, uid |-> user_data.id]}
           /\ Respond(s, req[s], 200,
                      [access_token |-> access_token, user |-> User(user_data)])
    /\ UNCHANGED <<songs, playlists, clock, phase, startups>>

\* POST /api/auth/login
login(s, user) ==
    /\ Arrive(s)
    /\ LET db_user == FindOne(SelectSeq(users, LAMBDA u : u.email = user.email))
           r == [Idle EXCEPT !.op = "login", !.args = user, !.at = clock]
           access_token == create_access_token([sub |-> user.email],
                                               ACCESS_TOKEN_EXPIRE_MINUTES, clock)
       IN  IF db_user = None \/ ~verify_password(user.password, db_user.password)
           THEN /\ Respond(s, r, 401, "Incorrect email or password")
                /\ UNCHANGED issued
           ELSE /\ issued' = issued \cup {[token |-> access_token, uid |-> db_user.id]}
                /\ Respond(s, r, 200,
                           [access_token |-> access_token, user |-> User(db_user)])
    /\ UNCHANGED <<users, songs, playlists, clock, phase, startups>>

\* ------------------------------------------------------------- music routes
Visible_to_all(p, user_id) == TRUE

\* {"$or": [{"is_public": True}, {"created_by": current_user["id"]}]}
Visible(p, user_id) == p.is_public \/ p.created_by = user_id

\* GET /api/playlists
get_playlists(s, bearer) ==
    /\ Arrive(s)
    /\ LET r == Request("get_playlists", None, bearer)
           found == ToList(SelectSeq(playlists,
                        LAMBDA p : Visible(p, r.cur.id)), TO_LIST_PLAYLISTS)
       IN  IF r.cur = None THEN credentials_exception(s, r)
           ELSE Respond(s, r, 200, found)
    /\ UNCHANGED <<users, songs, playlists, issued, clock, phase, startups>>

UserPlaylists == Len(SelectSeq(playlists, LAMBDA p : p.created_by # SYSTEM))

\* POST /api/playlists
create_playlist(s, bearer, playlist) ==
    /\ Arrive(s)
    /\ UserPlaylists < MaxPlaylists
    /\ LET r == Request("create_playlist", playlist, bearer)
           playlist_data == [id |-> Uuid4("p", Len(playlists) + 1),
                             title |-> playlist.title,
                             description |-> playlist.description,
                             songs |-> <<>>,
                             created_by |-> r.cur.id,
                             is_public |-> playlist.is_public]
       IN  IF r.cur = None
           THEN credentials_exception(s, r) /\ UNCHANGED playlists
           ELSE /\ playlists' = Append(playlists, playlist_data)
                /\ Respond(s, r, 200, playlist_data)
    /\ UNCHANGED <<users, songs, issued, clock, phase, startups>>

\* GET /api/playlists/{playlist_id}/songs, up to db.playlists.find_one
get_playlist_songs(s, bearer, playlist_id) ==
    /\ Arrive(s)
    /\ LET r == Request("get_playlist_songs", [playlist_id |-> playlist_id], bearer)
           playlist == FindOne(SelectSeq(playlists, LAMBDA p : p.id = playlist_id))
       IN  IF r.cur = None THEN credentials_exception(s, r)
           ELSE IF playlist = None
           THEN Respond(s, r, 404, "Playlist not found")
           ELSE IF ~playlist.is_public /\ playlist.created_by # r.cur.id
           THEN Respond(s, r, 403, "Access denied")
           ELSE Goto(s, [r EXCEPT !.playlist = playlist], "get_playlist_songs_find")
    /\ UNCHANGED <<users, songs, playlists, issued, clock, phase, startups>>

\* get_playlist_songs, from db.songs.find to the response
get_playlist_songs_find(s) ==
    /\ At(s, "get_playlist_songs_find")
    /\ LET playlist == req[s].playlist
           found == ToList(SelectSeq(songs,
                        LAMBDA d : Contains(playlist.songs, d.id)), TO_LIST_SONGS)
       IN  Respond(s, req[s], 200, found)
    /\ UNCHANGED <<users, songs, playlists, issued, clock, phase, startups>>

\* POST /api/songs
upload_song(s, bearer, song) ==
    /\ Arrive(s)
    /\ Len(songs) < MaxSongs
    /\ LET r == Request("upload_song", song, bearer)
           song_data == [id |-> Uuid4("s", Len(songs) + 1),
                         title |-> song.title,
                         artist |-> song.artist,
                         genre |-> song.genre,
                         uploaded_by |-> r.cur.id]
       IN  IF r.cur = None
           THEN credentials_exception(s, r) /\ UNCHANGED songs
           ELSE /\ songs' = Append(songs, song_data)
                /\ Respond(s, r, 200, song_data)
    /\ UNCHANGED <<users, playlists, issued, clock, phase, startups>>

\* GET /api/songs
get_songs(s, bearer) ==
    /\ Arrive(s)
    /\ LET r == Request("get_songs", None, bearer)
       IN  IF r.cur = None THEN credentials_exception(s, r)
           ELSE Respond(s, r, 200, ToList(songs, TO_LIST_SONGS))
    /\ UNCHANGED <<users, songs, playlists, issued, clock, phase, startups>>

\* db.playlists.update_one({"id": playlist_id}, {op: {"songs": song_id}}): the
\* first playlist with the id has its song list changed by op
UpdateOne(pls, playlist_id, op, song_id) ==
    LET hit == {i \in 1..Len(pls) : pls[i].id = playlist_id}
    IN  IF hit = {} THEN pls
        ELSE LET k == CHOOSE i \in hit : \A j \in hit : i <= j
             IN  [pls EXCEPT ![k].songs =
                     IF op = "$push" THEN Push(pls[k].songs, song_id)
                     ELSE Pull(pls[k].songs, song_id)]

add_song_to_playlist_song_before_owner(s, bearer, playlist_id, song_id) ==
    /\ Arrive(s)
    /\ LET r == Request("add_song_to_playlist",
                        [playlist_id |-> playlist_id, song_id |-> song_id], bearer)
           playlist == FindOne(SelectSeq(playlists, LAMBDA p : p.id = playlist_id))
           song == FindOne(SelectSeq(songs, LAMBDA d : d.id = song_id))
       IN  IF r.cur = None THEN credentials_exception(s, r)
           ELSE IF playlist = None
           THEN Respond(s, r, 404, "Playlist not found")
           ELSE IF song = None
           THEN Respond(s, r, 404, "Song not found")
           ELSE IF playlist.created_by # r.cur.id
           THEN Respond(s, r, 403, "Access denied")
           ELSE Goto(s, [r EXCEPT !.playlist = playlist],
                     "add_song_to_playlist_find_song")
    /\ UNCHANGED <<users, songs, playlists, issued, clock, phase, startups>>

\* POST /api/playlists/{playlist_id}/songs/{song_id}, up to db.playlists.find_one
add_song_to_playlist(s, bearer, playlist_id, song_id) ==
    /\ Arrive(s)
    /\ LET r == Request("add_song_to_playlist",
                        [playlist_id |-> playlist_id, song_id |-> song_id], bearer)
           playlist == FindOne(SelectSeq(playlists, LAMBDA p : p.id = playlist_id))
       IN  IF r.cur = None THEN credentials_exception(s, r)
           ELSE IF playlist = None
           THEN Respond(s, r, 404, "Playlist not found")
           ELSE IF playlist.created_by # r.cur.id
           THEN Respond(s, r, 403, "Access denied")
           ELSE Goto(s, [r EXCEPT !.playlist = playlist],
                     "add_song_to_playlist_find_song")
    /\ UNCHANGED <<users, songs, playlists, issued, clock, phase, startups>>

add_song_to_playlist_without_song_lookup(s) ==
    /\ At(s, "add_song_to_playlist_find_song")
    /\ IF ~Contains(req[s].playlist.songs, req[s].args.song_id)
       THEN Goto(s, [req[s] EXCEPT !.playlist = None], "add_song_to_playlist_push")
       ELSE Respond(s, req[s], 200, "Song added to playlist")
    /\ UNCHANGED <<users, songs, playlists, issued, clock, phase, startups>>

\* add_song_to_playlist, from db.songs.find_one to the membership test on the
\* playlist document read before (not read again once the test is made)
add_song_to_playlist_find_song(s) ==
    /\ At(s, "add_song_to_playlist_find_song")
    /\ LET song_id == req[s].args.song_id
           playlist == req[s].playlist
           song == FindOne(SelectSeq(songs, LAMBDA d : d.id = song_id))
       IN  IF song = None
           THEN Respond(s, req[s], 404, "Song not found")
           ELSE IF ~Contains(playlist.songs, song_id)
           THEN Goto(s, [req[s] EXCEPT !.playlist = None], "add_song_to_playlist_push")
           ELSE Respond(s, req[s], 200, "Song added to playlist")
    /\ UNCHANGED <<users, songs, playlists, issued, clock, phase, startups>>

\* add_song_to_playlist, from db.playlists.update_one ($push) to the response
add_song_to_playlist_push(s) ==
    /\ At(s, "add_song_to_playlist_push")
    /\ playlists' = UpdateOne(playlists, req[s].args.playlist_id, "$push",
                              req[s].args.song_id)
    /\ Respond(s, req[s], 200, "Song added to playlist")
    /\ UNCHANGED <<users, songs, issued, clock, phase, startups>>

remove_song_from_playlist_without_owner_check(s, bearer, playlist_id, song_id) ==
    /\ Arrive(s)
    /\ LET r == Request("remove_song_from_playlist",
                        [playlist_id |-> playlist_id, song_id |-> song_id], bearer)
           playlist == FindOne(SelectSeq(playlists, LAMBDA p : p.id = playlist_id))
       IN  IF r.cur = None THEN credentials_exception(s, r)
           ELSE IF playlist = None
           THEN Respond(s, r, 404, "Playlist not found")
           ELSE Goto(s, r, "remove_song_from_playlist_pull")
    /\ UNCHANGED <<users, songs, playlists, issued, clock, phase, startups>>

\* DELETE /api/playlists/{playlist_id}/songs/{song_id}, up to db.playlists.find_one
\* (the playlist document is not read again after the two checks)
remove_song_from_playlist(s, bearer, playlist_id, song_id) ==
    /\ Arrive(s)
    /\ LET r == Request("remove_song_from_playlist",
                        [playlist_id |-> playlist_id, song_id |-> song_id], bearer)
           playlist == FindOne(SelectSeq(playlists, LAMBDA p : p.id = playlist_id))
       IN  IF r.cur = None THEN credentials_exception(s, r)
           ELSE IF playlist = None
           THEN Respond(s, r, 404, "Playlist not found")
           ELSE IF playlist.created_by # r.cur.id
           THEN Respond(s, r, 403, "Access denied")
           ELSE Goto(s, r, "remove_song_from_playlist_pull")
    /\ UNCHANGED <<users, songs, playlists, issued, clock, phase, startups>>

\* remove_song_from_playlist, from db.playlists.update_one ($pull) to the response
remove_song_from_playlist_pull(s) ==
    /\ At(s, "remove_song_from_playlist_pull")
    /\ playlists' = UpdateOne(playlists, req[s].args.playlist_id, "$pull",
                              req[s].args.song_id)
    /\ Respond(s, req[s], 200, "Song removed from playlist")
    /\ UNCHANGED <<users, songs, issued, clock, phase, startups>>

\* GET /api/search, up to db.songs.find
search(s, bearer, q) ==
    /\ Arrive(s)
    /\ LET r == Request("search", [q |-> q], bearer)
           found == ToList(SelectSeq(songs,
                        LAMBDA d : \/ RegexMatch(q, d.title)
                                   \/ RegexMatch(q, d.artist)
                                   \/ RegexMatch(q, d.genre)), TO_LIST_SEARCH_SONGS)
       IN  IF r.cur = None THEN credentials_exception(s, r)
           ELSE Goto(s, [r EXCEPT !.songs = found], "search_playlists")
    /\ UNCHANGED <<users, songs, playlists, issued, clock, phase, startups>>

\* search, from db.playlists.find to the response
search_playlists(s) ==
    /\ At(s, "search_playlists")
    /\ LET q == req[s].args.q
           current_user == req[s].cur
           found == ToList(SelectSeq(playlists,
                        LAMBDA p : /\ Visible(p, current_user.id)
                                   /\ \/ RegexMatch(q, p.title)
                                      \/ RegexMatch(q, p.description)),
                        TO_LIST_SEARCH_PLAYLISTS)
       IN  Respond(s, req[s], 200, [songs |-> req[s].songs, playlists |-> found])
    /\ UNCHANGED <<users, songs, playlists, issued, clock, phase, startups>>

\* GET /api/user/profile
get_user_profile(s, bearer) ==
    /\ Arrive(s)
    /\ LET r == Request("get_user_profile", None, bearer)
       IN  IF r.cur = None THEN credentials_exception(s, r)
           ELSE Respond(s, r, 200, User(r.cur))
    /\ UNCHANGED <<users, songs, playlists, issued, clock, phase, startups>>

\* time passes
Tick ==
    /\ Ready
    /\ clock + TickStep <= MaxTime
    /\ clock' = clock + TickStep
    /\ resp' = NoResponse
    /\ UNCHANGED <<users, songs, playlists, issued, phase, startups, req>>

\* ------------------------------------------------------- specifications
\* A process that is down, over an empty store.
Init ==
    /\ users = <<>>
    /\ songs = <<>>
    /\ playlists = <<>>
    /\ issued = {}
    /\ clock = 0
    /\ phase = "down"
    /\ startups = 0
    /\ req = [s \in Slots |-> Idle]
    /\ resp = NoResponse

Next ==
    \/ startup_event
    \/ shutdown_db_client
    \/ \E s \in Slots, user \in UserCreateInputs : register(s, user)
    \/ \E s \in Slots : register_insert(s)
    \/ \E s \in Slots, user \in UserLoginInputs : login(s, user)
    \/ \E s \in Slots, b \in Bearers : get_playlists(s, b)
    \/ \E s \in Slots, b \in Bearers, playlist \in PlaylistCreateInputs :
           create_playlist(s, b, playlist)
    \/ \E s \in Slots, b \in Bearers, playlist_id \in PlaylistIdInputs :
           get_playlist_songs(s, b, playlist_id)
    \/ \E s \in Slots : get_playlist_songs_find(s)
    \/ \E s \in Slots, b \in Bearers, song \in SongCreateInputs :
           upload_song(s, b, song)
    \/ \E s \in Slots, b \in Bearers : get_songs(s, b)
    \/ \E s \in Slots, b \in Bearers, playlist_id \in PlaylistIdInputs,
          song_id \in SongIdInputs :
           add_song_to_playlist(s, b, playlist_id, song_id)
    \/ \E s \in Slots : add_song_to_playlist_find_song(s)
    \/ \E s \in Slots : add_song_to_playlist_push(s)
    \/ \E s \in Slots, b \in Bearers, playlist_id \in PlaylistIdInputs,
          song_id \in SongIdInputs :
           remove_song_from_playlist(s, b, playlist_id, song_id)
    \/ \E s \in Slots : remove_song_from_playlist_pull(s)
    \/ \E s \in Slots, b \in Bearers, q \in Queries : search(s, b, q)
    \/ \E s \in Slots : search_playlists(s)
    \/ \E s \in Slots, b \in Bearers : get_user_profile(s, b)
    \/ Tick
    \/ send_response

Spec == Init /\ [][Next]_vars

\* The state after the process started on an empty store.
InitAuth ==
    /\ users = <<>>
    /\ songs = <<>>
    /\ playlists = initialize_sample_data(<<>>)
    /\ issued = {}
    /\ clock = 0
    /\ phase = "up"
    /\ startups = 1
    /\ req = [s \in Slots |-> Idle]
    /\ resp = NoResponse

\* Registration, login and an authenticated route, handled concurrently as
\* time passes.
NextAuth ==
    \/ \E s \in Slots, user \in UserCreateInputs : register(s, user)
    \/ \E s \in Slots : register_insert(s)
    \/ \E s \in Slots, user \in UserLoginInputs : login(s, user)
    \/ \E s \in Slots, b \in Bearers : get_user_profile(s, b)
    \/ Tick
    \/ send_response

SpecAuth == InitAuth /\ [][NextAuth]_vars

\* The process starting and stopping over the store, and the requests that
\* write playlists.
NextSeed ==
    \/ startup_event
    \/ shutdown_db_client
    \/ \E s \in Slots, user \in UserCreateInputs : register(s, user)
    \/ \E s \in Slots : register_insert(s)
    \/ \E s \in Slots, b \in Bearers, playlist \in PlaylistCreateInputs :
           create_playlist(s, b, playlist)
    \/ \E s \in Slots, b \in Bearers, song \in SongCreateInputs :
           upload_song(s, b, song)
    \/ \E s \in Slots, b \in Bearers, playlist_id \in PlaylistIdInputs,
          song_id \in SongIdInputs :
           add_song_to_playlist(s, b, playlist_id, song_id)
    \/ \E s \in Slots : add_song_to_playlist_find_song(s)
    \/ \E s \in Slots : add_song_to_playlist_push(s)
    \/ send_response

SpecSeed == Init /\ [][NextSeed]_vars

\* The state after: the process started on an empty store, then Ann and Bob
\* registered one after the other at time 0.
InitCatalog ==
    /\ users = << [id |-> Uuid4("u", 1), name |-> "Ann", email |-> "a@x",
                   password |-> get_password_hash("pw1")],
                  [id |-> Uuid4("u", 2), name |-> "Bob", email |-> "b@x",
                   password |-> get_password_hash("pw1")] >>
    /\ songs = <<>>
    /\ playlists = initialize_sample_data(<<>>)
    /\ issued = { [token |-> create_access_token([sub |-> "a@x"],
                                ACCESS_TOKEN_EXPIRE_MINUTES, 0), uid |-> Uuid4("u", 1)],
                  [token |-> create_access_token([sub |-> "b@x"],
                                ACCESS_TOKEN_EXPIRE_MINUTES, 0), uid |-> Uuid4("u", 2)] }
    /\ clock = 0
    /\ phase = "up"
    /\ startups = 1
    /\ req = [s \in Slots |-> Idle]
    /\ resp = NoResponse

\* The routes that write songs and playlists, handled concurrently.
NextCatalog ==
    \/ \E s \in Slots, b \in Bearers, playlist \in PlaylistCreateInputs :
           create_playlist(s, b, playlist)
    \/ \E s \in Slots, b \in Bearers, song \in SongCreateInputs :
           upload_song(s, b, song)
    \/ \E s \in Slots, b \in Bearers, playlist_id \in PlaylistIdInputs,
          song_id \in SongIdInputs :
           add_song_to_playlist(s, b, playlist_id, song_id)
    \/ \E s \in Slots : add_song_to_playlist_find_song(s)
    \/ \E s \in Slots : add_song_to_playlist_push(s)
    \/ \E s \in Slots, b \in Bearers, playlist_id \in PlaylistIdInputs,
          song_id \in SongIdInputs :
           remove_song_from_playlist(s, b, playlist_id, song_id)
    \/ \E s \in Slots : remove_song_from_playlist_pull(s)
    \/ send_response

SpecCatalog == InitCatalog /\ [][NextCatalog]_vars

\* The routes that read songs and playlists, handled concurrently with the
\* requests that create playlists, upload songs and add songs to playlists.
NextRead ==
    \/ \E s \in Slots, b \in Bearers : get_playlists(s, b)
    \/ \E s \in Slots, b \in Bearers, playlist \in PlaylistCreateInputs :
           create_playlist(s, b, playlist)
    \/ \E s \in Slots, b \in Bearers, playlist_id \in PlaylistIdInputs :
           get_playlist_songs(s, b, playlist_id)
    \/ \E s \in Slots : get_playlist_songs_find(s)
    \/ \E s \in Slots, b \in Bearers, song \in SongCreateInputs :
           upload_song(s, b, song)
    \/ \E s \in Slots, b \in Bearers : get_songs(s, b)
    \/ \E s \in Slots, b \in Bearers, playlist_id \in PlaylistIdInputs,
          song_id \in SongIdInputs :
           add_song_to_playlist(s, b, playlist_id, song_id)
    \/ \E s \in Slots : add_song_to_playlist_find_song(s)
    \/ \E s \in Slots : add_song_to_playlist_push(s)
    \/ \E s \in Slots, b \in Bearers, q \in Queries : search(s, b, q)
    \/ \E s \in Slots : search_playlists(s)
    \/ send_response

SpecRead == InitCatalog /\ [][NextRead]_vars

\* ------------------------------------------------------------------ claims
PlaylistExists(playlist_id) == \E p \in Range(playlists) : p.id = playlist_id

SongExists(song_id) == \E d \in Range(songs) : d.id = song_id

\* the playlist exists and the user is not its creator
NotOwner(playlist_id, user_id) ==
    \E p \in Range(playlists) : p.id = playlist_id /\ p.created_by # user_id

SystemPlaylists(pls) == SelectSeq(pls, LAMBDA p : p.created_by = SYSTEM)

MembershipOps == {"add_song_to_playlist", "remove_song_from_playlist"}

\* this step a request arrived and was answered at once
AnsweredOnArrival == Ready /\ req' = req /\ resp' # NoResponse

\* this step a request arrived in slot s and its handler awaits a later step
ArrivedInto(s) == req[s].pc = "idle" /\ req'[s].pc # "idle"

\* this step the handler in slot s, resumed at pc, ended with a response
EndedFrom(s, pc) == req[s].pc = pc /\ req'[s].pc = "idle" /\ resp' # NoResponse

\* C1: in every reachable state, each playlist's song list contains every song
\* id at most once, also when add and remove requests are handled concurrently.
C1_NoDuplicateSongs ==
    \A p \in Range(playlists) :
        \A i, j \in 1..Len(p.songs) : i # j => p.songs[i] # p.songs[j]

\* C2: in every reachable state, no two user documents have the same email,
\* also when register requests for one email are handled concurrently.
C2_EmailsUnique ==
    \A i, j \in 1..Len(users) : i # j => users[i].email # users[j].email

C4_OnlyOwnerChangesSongList ==
    [][ /\ (/\ AnsweredOnArrival
            /\ resp'.op \in MembershipOps
            /\ resp'.status # 401
            /\ NotOwner(resp'.args.playlist_id, resp'.cur.id))
           => resp'.status = 403 /\ UNCHANGED store
        /\ \A s \in Slots :
               ArrivedInto(s) /\ req'[s].op \in MembershipOps
                   => ~NotOwner(req'[s].args.playlist_id, req'[s].cur.id)
        /\ \A i \in 1..Len(playlists) :
               playlists'[i].songs # playlists[i].songs =>
                   \E s \in Slots :
                       /\ req[s].op \in MembershipOps
                       /\ req[s].args.playlist_id = playlists[i].id
                       /\ req[s].cur.id = playlists[i].created_by
                       /\ req'[s].pc = "idle"
        /\ \A p \in Range(playlists') : p.created_by = SYSTEM => p.songs = <<>>
      ]_vars

\* a user was refused the removal of a song from a public playlist of another
C4_Witness ==
    /\ resp.op = "remove_song_from_playlist"
    /\ resp.status = 403
    /\ SongExists(resp.args.song_id)
    /\ \E p \in Range(playlists) :
           /\ p.id = resp.args.playlist_id
           /\ p.is_public
           /\ p.created_by \notin {SYSTEM, resp.cur.id}
           /\ Contains(p.songs, resp.args.song_id)

\* C5, as claimed: add_song_to_playlist answers 404 whenever the playlist or
\* the song does not exist, for every requester, and 403 when both exist and
\* the requester is not the creator; a failing request changes no song list.
C5_NotFoundBeforeForbidden ==
    [][ resp' # NoResponse /\ resp'.op = "add_song_to_playlist" /\ resp'.status # 401 =>
            LET playlist_id == resp'.args.playlist_id
                song_id == resp'.args.song_id
            IN  /\ ~PlaylistExists(playlist_id) \/ ~SongExists(song_id)
                       => resp'.status = 404
                /\ (/\ PlaylistExists(playlist_id)
                    /\ SongExists(song_id)
                    /\ NotOwner(playlist_id, resp'.cur.id)) => resp'.status = 403
                /\ resp'.status \in {403, 404} => UNCHANGED playlists
      ]_vars

\* C5, amended: add_song_to_playlist answers 404 when the playlist does not
\* exist, 403 when it exists and the requester is not its creator (whether the
\* song exists or not), 404 when the requester is the creator and the song
\* does not exist; a failing request changes no song list.
C5_ForbiddenBeforeSongNotFound ==
    [][ resp' # NoResponse /\ resp'.op = "add_song_to_playlist" /\ resp'.status # 401 =>
            LET playlist_id == resp'.args.playlist_id
                song_id == resp'.args.song_id
            IN  /\ ~PlaylistExists(playlist_id) => resp'.status = 404
                /\ NotOwner(playlist_id, resp'.cur.id) => resp'.status = 403
                /\ (/\ PlaylistExists(playlist_id)
                    /\ ~NotOwner(playlist_id, resp'.cur.id)
                    /\ ~SongExists(song_id)) => resp'.status = 404
                /\ (/\ PlaylistExists(playlist_id)
                    /\ ~NotOwner(playlist_id, resp'.cur.id)
                    /\ SongExists(song_id)) => resp'.status = 200
                /\ resp'.status \in {403, 404} => UNCHANGED playlists
      ]_vars

\* a user who is not the creator was refused the addition of a missing song
C5_Witness ==
    /\ resp.op = "add_song_to_playlist"
    /\ resp.status = 403
    /\ PlaylistExists(resp.args.playlist_id)
    /\ ~SongExists(resp.args.song_id)

EmailRegistered(email) == \E i \in 1..Len(users) : users[i].email = email

\* C6: a register request for an email a stored user has answers 400, inserts
\* no user, leaves the stored users unchanged and issues no token; a register
\* request for an email no stored user has is not refused, and its insert
\* appends the user of the request and answers 200.
C6_RegisterConflict ==
    [][ /\ AnsweredOnArrival /\ resp'.op = "register" =>
               /\ EmailRegistered(resp'.args.email)
               /\ resp'.status = 400
               /\ users' = users
               /\ issued' = issued
        /\ \A s \in Slots :
               ArrivedInto(s) /\ req'[s].op = "register" =>
                   /\ ~EmailRegistered(req'[s].args.email)
                   /\ users' = users
                   /\ issued' = issued
        /\ \A s \in Slots :
               EndedFrom(s, "register_insert") =>
                   /\ resp'.status = 200
                   /\ Len(users') = Len(users) + 1
                   /\ SubSeq(users', 1, Len(users)) = users
                   /\ users'[Len(users')].email = req[s].args.email
                   /\ users'[Len(users')].name = req[s].args.name
                   /\ resp'.body.user.id = users'[Len(users')].id
      ]_vars

\* a second register request for the email of a stored user was refused
C6_Witness ==
    /\ resp.op = "register"
    /\ resp.status = 400
    /\ Len(users) = 1
    /\ users[1].email = resp.args.email
    /\ users[1].name # resp.args.name
    /\ Cardinality(issued) = 1

\* the song list without every element equal to song_id, the others in order
Without(list, song_id) == SelectSeq(list, LAMBDA x : x # song_id)

\* C7: the $pull step of remove_song_from_playlist answers 200; the playlist's
\* song list loses every occurrence of the song id and keeps the other ids in
\* their order (so it is unchanged when the id is not in it); no other field,
\* no other playlist and no song changes.
C7_RemoveFrame ==
    [][ \A s \in Slots :
            EndedFrom(s, "remove_song_from_playlist_pull") =>
                LET playlist_id == req[s].args.playlist_id
                    song_id == req[s].args.song_id
                IN  /\ resp'.status = 200
                    /\ ~NotOwner(playlist_id, req[s].cur.id)
                    /\ Len(playlists') = Len(playlists)
                    /\ \A i \in 1..Len(playlists) :
                           IF playlists[i].id = playlist_id
                           THEN /\ playlists'[i] = [playlists[i] EXCEPT
                                       !.songs = Without(playlists[i].songs, song_id)]
                                /\ ~Contains(playlists'[i].songs, song_id)
                                /\ ~Contains(playlists[i].songs, song_id)
                                       => playlists'[i].songs = playlists[i].songs
                           ELSE playlists'[i] = playlists[i]
                    /\ songs' = songs
                    /\ users' = users
      ]_vars

\* the creator removed a song and the playlist keeps another
C7_Witness ==
    /\ resp.op = "remove_song_from_playlist"
    /\ resp.status = 200
    /\ SongExists(resp.args.song_id)
    /\ \E p \in Range(playlists) :
           /\ p.id = resp.args.playlist_id
           /\ p.songs # <<>>
           /\ ~Contains(p.songs, resp.args.song_id)

\* C8: a startup that finds no playlist created by "system" appends the four
\* public playlists Dance, Mood, Party, Chill with empty song lists; a startup
\* that finds one writes nothing; whenever the process serves, the store
\* holds exactly four playlists created by "system".
C8_SeedingIdempotent ==
    [][ /\ phase = "down" /\ phase' = "up" =>
               IF SystemPlaylists(playlists) = <<>>
               THEN /\ Len(playlists') = Len(playlists) + 4
                    /\ SubSeq(playlists', 1, Len(playlists)) = playlists
                    /\ LET added == SubSeq(playlists', Len(playlists) + 1, Len(playlists'))
                       IN  /\ [i \in 1..4 |-> added[i].title]
                                  = <<"Dance", "Mood", "Party", "Chill">>
                           /\ \A i \in 1..4 : /\ added[i].created_by = SYSTEM
                                              /\ added[i].is_public
                                              /\ added[i].songs = <<>>
                    /\ UNCHANGED <<users, songs>>
               ELSE UNCHANGED store
        /\ phase' = "up" => Len(SystemPlaylists(playlists')) = 4
      ]_vars

\* the process serves after its second start, next to a user's playlist
C8_Witness ==
    /\ phase = "up"
    /\ startups = 2
    /\ UserPlaylists > 0
    /\ Len(SystemPlaylists(playlists)) = 4

\* C9: a token returned by register or login for a user resolves, on an
\* authenticated route, to that user at every time before its expiry and is
\* refused with 401 at every time after it; it never resolves to another user.
C9_TokenResolvesToItsUser ==
    resp.op \notin {"none", "register", "login"} /\ resp.holder # ForgedToken.uid =>
        /\ resp.at < resp.token.exp =>
               resp.status # 401 /\ resp.cur # None /\ resp.cur.id = resp.holder
        /\ resp.at > resp.token.exp => resp.status = 401
        /\ resp.cur # None => resp.cur.id = resp.holder

\* C10: in every reachable state, every song id in a playlist's song list is
\* the id of a song in db.songs.
C10_SongListRefersToSongs ==
    \A p \in Range(playlists) :
        \A i \in 1..Len(p.songs) : SongExists(p.songs[i])

\* the creator added a song, and the playlist holds it
C10_Witness ==
    /\ resp.op = "add_song_to_playlist"
    /\ resp.status = 200
    /\ \E p \in Range(playlists) :
           /\ p.id = resp.args.playlist_id
           /\ Contains(p.songs, resp.args.song_id)

====
